---- MODULE Spec2Model ----
(***************************************************************************)
(* League table widget (src/widget.js): the message-driven initialisation  *)
(* and rendering lifecycle.  One action per event handler of the page:     *)
(* the host message listener, DOMContentLoaded, the bootstrap timer, the   *)
(* animation-frame and 60ms callbacks of scheduleInitialRender, the change *)
(* handler of the league selector, the click handler and the formatter of  *)
(* the team-name cell, and the debounced resize listener of initTable.     *)
(* Handlers run to completion.                                             *)
(*                                                                         *)
(* JavaScript values are encoded as follows.  An object is a record whose  *)
(* DOMAIN is the set of properties it carries, so a missing property is a  *)
(* missing field.  null and undefined are the two records Null and         *)
(* Undefined.  An object whose key order is observed (Object.keys) is a    *)
(* record [keys, val]: the keys in insertion order and the values.         *)
(***************************************************************************)
EXTENDS Integers, Sequences, FiniteSets, TLC

VARIABLES
    table,              \* TRUE once the Tabulator instance exists (table !== null)
    tableData,          \* the rows last handed to table.setData
    tableLayout,        \* the layout option of the Tabulator instance
    currentLayout,      \* "fitColumns" | "fitData" | NoLayout
    viewportWidth,      \* width that matchMedia("(min-width: 900px)") tests
    activeLeagueId,
    standingsByLeague,  \* function: league id -> sequence of rows
    leagues,
    domReady,
    pendingPayload,
    initReceived,
    selOptions,         \* <option>s of #leagueSelect: sequence of [value, text]
    selValue,           \* value of #leagueSelect
    rafQueue,           \* league ids captured by pending requestAnimationFrame callbacks
    timeouts,           \* league ids captured by pending setTimeout(.., 60) callbacks
    bootTimer,          \* TRUE while the setTimeout(.., 250) of DOMContentLoaded is pending
    resizeTimer,        \* ms left on the timer t of the debounced resize listener, or NoTimer
    cellValue,          \* formatter: the value of the team-name cell
    cellUrl,            \* formatter: the teamUrl of the row of the cell
    cellHtml,           \* formatter: the markup returned for the cell
    tablesCreated,      \* history: number of Tabulator instances constructed
    resizes,            \* history: number of resize events of the window
    quiet,              \* history: ms since the resize listener was last called
    burst,              \* history: calls of the resize listener since its last evaluation
    received,           \* history: number of messages delivered to the listener
    initArrived,        \* history: some INIT_WIDGET message was delivered
    earlyInits,         \* history: INIT_WIDGET payloads delivered before DOMContentLoaded
    inOrder,            \* history: the mapping obtained by applying every message on arrival
    sampleInstalls,     \* history: number of times SAMPLE_PAYLOAD was processed
    last                \* history: the handler that ran last and what it did

vars == << table, tableData, tableLayout, currentLayout, viewportWidth, activeLeagueId,
           standingsByLeague, leagues, domReady, pendingPayload, initReceived,
           selOptions, selValue, rafQueue, timeouts, bootTimer, resizeTimer,
           cellValue, cellUrl, cellHtml, tablesCreated, resizes, quiet, burst,
           received, initArrived, earlyInits, inOrder, sampleInstalls, last >>

\* what the handlers of the messages, of the timers and of the selector leave alone
resizeVars == << resizeTimer, resizes, quiet, burst >>
cellVars == << cellValue, cellUrl, cellHtml >>

-----------------------------------------------------------------------------
(* Bounds *)

MaxMsgs == 2        \* messages delivered to the listener in one page load
MaxRows == 2        \* rows of a league in the payloads of RankSpec
MaxResizes == 3     \* resize events of the window in one page load
MaxChars == 2       \* characters of a team name and of a team URL given to the formatter

-----------------------------------------------------------------------------
(* JavaScript values *)

Null == [null |-> TRUE]
Undefined == [undefined |-> TRUE]
Truthy(v) == v \notin {Null, Undefined}

NoLeague == "<null>"        \* activeLeagueId === null
NoLayout == "<null>"        \* currentLayout === null
NoTimer == -1               \* let t; no timer set, or the timer has fired
NoHtml == << "<none>" >>    \* the formatter has not been called
NoValue == << "<undefined>" >>  \* undefined, where strings are sequences of pieces
EmptyMap == [k \in {} |-> <<>>]

Has(o, f) == f \in DOMAIN o

Arr(s) == [isArray |-> TRUE, items |-> s]
NotArr == [isArray |-> FALSE]

Obj(ks, v) == [keys |-> ks, val |-> v]
EmptyObj == Obj(<<>>, EmptyMap)

-----------------------------------------------------------------------------
(* Program constants *)

Breakpoint == 900           \* "(min-width: 900px)"
DebounceWait == 120         \* debounce(onResize, 120)
SampleLeagueId == "Tr1"

SampleRows ==
    << [equipeName |-> "CHAKS", points |-> 12, victoires |-> 4, defaites |-> 0,
        nuls |-> 0, forfaits |-> 0, butsPour |-> 16, butsContre |-> 2,
        differentiel |-> 14, teamUrl |-> "/terrain1-chaks"],
       [equipeName |-> "Kelb United", points |-> 9, victoires |-> 3, defaites |-> 1,
        nuls |-> 0, forfaits |-> 0, butsPour |-> 12, butsContre |-> 6,
        differentiel |-> 6, teamUrl |-> "/terrain1-kelb-united"],
       [equipeName |-> "Leaf", points |-> 9, victoires |-> 3, defaites |-> 1,
        nuls |-> 0, forfaits |-> 0, butsPour |-> 10, butsContre |-> 5,
        differentiel |-> 5, teamUrl |-> "/terrain1-leaf"],
       [equipeName |-> "Northside", points |-> 6, victoires |-> 2, defaites |-> 2,
        nuls |-> 0, forfaits |-> 0, butsPour |-> 8, butsContre |-> 8,
        differentiel |-> 0, teamUrl |-> "/terrain1-northside"],
       [equipeName |-> "Royal Academy", points |-> 3, victoires |-> 1, defaites |-> 3,
        nuls |-> 0, forfaits |-> 1, butsPour |-> 5, butsContre |-> 12,
        differentiel |-> -7, teamUrl |-> "/terrain1-royal-academy"] >>

SAMPLE_PAYLOAD ==
    Obj(<< "leagues", "standingsByLeague" >>,
        "leagues" :> Arr(<< [id |-> SampleLeagueId, name |-> "Club Tomohawk"] >>)
        @@ "standingsByLeague" :> Obj(<< SampleLeagueId >>, SampleLeagueId :> SampleRows))

-----------------------------------------------------------------------------
(* Ranking of rows: the comparator and the sort of renderLeague *)

\* x ?? 0 on a numeric field of a row
Num(r, f) == IF Has(r, f) THEN r[f] ELSE 0

\* String(r.equipeName || "")
NameOf(r) == IF Has(r, "equipeName") THEN r.equipeName ELSE ""

\* Team names in the order localeCompare gives them
Collation ==
    << "", "CHAKS", "Kelb United", "Leaf", "M", "N", "Northside",
       "Royal Academy", "V", "W", "X", "Y", "Z" >>

CollationIndex(n) == CHOOSE i \in 1..Len(Collation) : Collation[i] = n

localeCompare(a, b) ==
    IF CollationIndex(a) < CollationIndex(b) THEN -1
    ELSE IF CollationIndex(a) > CollationIndex(b) THEN 1
    ELSE 0

\* Compare without the differentiel level
CompareSkipsDifferentiel(a, b) ==
    LET dPoints == Num(b, "points") - Num(a, "points")
        dButs   == Num(b, "butsPour") - Num(a, "butsPour")
        dVict   == Num(b, "victoires") - Num(a, "victoires")
    IN  IF dPoints # 0 THEN dPoints
        ELSE IF dButs # 0 THEN dButs
        ELSE IF dVict # 0 THEN dVict
        ELSE localeCompare(NameOf(a), NameOf(b))

\* The comparator passed to rows.sort: the first non-zero difference decides
Compare(a, b) ==
    LET dPoints == Num(b, "points") - Num(a, "points")
        dDiff   == Num(b, "differentiel") - Num(a, "differentiel")
        dButs   == Num(b, "butsPour") - Num(a, "butsPour")
        dVict   == Num(b, "victoires") - Num(a, "victoires")
    IN  IF dPoints # 0 THEN dPoints
        ELSE IF dDiff # 0 THEN dDiff
        ELSE IF dButs # 0 THEN dButs
        ELSE IF dVict # 0 THEN dVict
        ELSE localeCompare(NameOf(a), NameOf(b))

\* The index row k of s gets from rows.sort(Compare): Array.prototype.sort is
\* stable, so k comes after the rows that compare smaller and after the
\* earlier rows that compare equal
SortedIndex(s, k) ==
    1 + Cardinality({j \in 1..Len(s) :
                        LET c == Compare(s[j], s[k])
                        IN  c < 0 \/ (c = 0 /\ j < k)})

\* rows.sort(Compare): row k of s is placed at its sorted index
SortRows(s) ==
    LET placed == { << SortedIndex(s, k), k >> : k \in 1..Len(s) }
    IN  [i \in 1..Len(s) |-> s[CHOOSE k \in 1..Len(s) : << i, k >> \in placed]]

\* SetPosition that keeps a position the row already carries
SetPositionKeepsUpstream(r, pos) ==
    IF Has(r, "position") THEN r
    ELSE ("position" :> pos) @@ r

\* r.position = i + 1 on the copy of a row (i counted from 0 in the code)
SetPosition(r, pos) ==
    ("position" :> pos) @@ r

AssignPositions(s) == [i \in 1..Len(s) |-> SetPosition(s[i], i)]

\* standingsByLeague[leagueId] || []
StoredRows(sbl, leagueId) == IF leagueId \in DOMAIN sbl THEN sbl[leagueId] ELSE <<>>

\* The stored mapping once renderLeague(leagueId) has run: the rows it sorts
\* and numbers are copies ({ ...x } in a new array), so that the stored rows
\* are written back in place
StoredAfterRenderInPlace(sbl, leagueId) ==
    IF leagueId \in DOMAIN sbl
    THEN (leagueId :> AssignPositions(SortRows(sbl[leagueId]))) @@ sbl
    ELSE sbl

\* The stored mapping once renderLeague(leagueId) has run: the rows it sorts
\* and numbers are copies ({ ...x } in a new array), the stored ones are not
\* touched
StoredAfterRender(sbl, leagueId) == sbl

\* table.setData(rows) that adds the rows to the data of the table
setDataAppends(current, rows) == current \o rows

\* table.setData(rows): the rows replace the data of the table
setData(current, rows) == rows

\* The rows renderLeague hands to table.setData
RenderRows(sbl, leagueId) == AssignPositions(SortRows(StoredRows(sbl, leagueId)))

\* getLayout that answers "fitColumns" at every width
getLayoutAlwaysFill(width) == "fitColumns"

\* getLayout()
getLayout(width) == IF width >= Breakpoint THEN "fitColumns" ELSE "fitData"

-----------------------------------------------------------------------------
(* Inputs: the rows, standings and payloads the host page may send *)

RowX == [equipeName |-> "X", points |-> 3, differentiel |-> 1]
RowY == [equipeName |-> "Y", points |-> 3, differentiel |-> 2]
RowV == [equipeName |-> "V", points |-> 3, differentiel |-> 2, position |-> 5]
RowZ == [equipeName |-> "Z", points |-> 3, differentiel |-> 2, butsPour |-> 1]
RowW == [equipeName |-> "W", points |-> 3, differentiel |-> 2, butsPour |-> 1,
         victoires |-> 1, teamUrl |-> "/t1"]
RowBare == [equipeName |-> "N"]
RowNeg == [equipeName |-> "M", points |-> 0, differentiel |-> -1, position |-> 1]

StandingsXY == << RowX, RowY >>
StandingsChain == << RowX, RowV, RowY, RowZ, RowW >>
StandingsMissing == << RowNeg, RowBare >>

LeagueIds == {"A", "B"}

UpdateStandings == { StandingsChain, <<>> }

\* payload of an UPDATE_TABLE message: well formed, or lacking a part
UpdatePayloads ==
    { [leagueId |-> l, standings |-> Arr(s)] : l \in LeagueIds, s \in UpdateStandings }
    \cup { Undefined,
           [leagueId |-> "A"],
           [leagueId |-> "A", standings |-> NotArr],
           [standings |-> Arr(StandingsXY)],
           [leagueId |-> "", standings |-> Arr(StandingsXY)] }

PayloadAB ==
    Obj(<< "leagues", "standingsByLeague" >>,
        "leagues" :> Arr(<< [id |-> "A", name |-> "Division A"], [id |-> "B"] >>)
        @@ "standingsByLeague" :>
               Obj(<< "A", "B" >>, "A" :> StandingsXY @@ "B" :> StandingsMissing))

PayloadMapOnly ==
    Obj(<< "standingsByLeague" >>,
        "standingsByLeague" :>
            Obj(<< "B", "A" >>, "B" :> StandingsChain @@ "A" :> StandingsXY))

PayloadFlat ==
    Obj(<< "version", "A" >>, "version" :> NotArr @@ "A" :> Arr(StandingsChain))

\* a league list without standingsByLeague: the rows are top-level arrays
PayloadListFlat ==
    Obj(<< "leagues", "B", "A" >>,
        "leagues" :> Arr(<< [id |-> "A", label |-> "First"], [id |-> "B", div |-> "D2"] >>)
        @@ "B" :> Arr(StandingsXY) @@ "A" :> Arr(StandingsMissing))

PayloadEmpty == EmptyObj

\* payload of an INIT_WIDGET message; Undefined: the message carries none
InitPayloads ==
    { PayloadAB, PayloadMapOnly, PayloadFlat, PayloadListFlat, PayloadEmpty, Undefined }

\* type of a message that is neither INIT_WIDGET nor UPDATE_TABLE; "": no type
OtherTypes == { "", "PING" }

-----------------------------------------------------------------------------
(* Payload shaping: processInitPayload, fallbackShape, keysToLeagues *)

\* obj[k] on an object with ordered keys
Get(obj, k) == IF k \in DOMAIN obj.val THEN obj.val[k] ELSE Undefined

IsArray(v) == Has(v, "isArray") /\ v.isArray

\* fallbackShape that keeps every property of obj
fallbackShapeKeepsAll(obj) ==
    Obj(obj.keys, [k \in DOMAIN obj.val |->
                      IF IsArray(obj.val[k]) THEN obj.val[k].items ELSE <<>>])

\* fallbackShape(obj): the array-valued properties of obj, in key order
fallbackShape(obj) ==
    LET ks == SelectSeq(obj.keys, LAMBDA k : IsArray(obj.val[k]))
    IN  Obj(ks, [k \in {ks[i] : i \in 1..Len(ks)} |-> obj.val[k].items])

\* keysToLeagues(obj)
keysToLeagues(obj) == [i \in 1..Len(obj.keys) |-> [id |-> obj.keys[i], name |-> obj.keys[i]]]

\* payload.leagues || []
PayloadLeagues(payload) ==
    IF Truthy(Get(payload, "leagues")) THEN Get(payload, "leagues").items ELSE <<>>

\* payload.standingsByLeague || fallbackShape(payload)
PayloadStandings(payload) ==
    IF Truthy(Get(payload, "standingsByLeague"))
    THEN Get(payload, "standingsByLeague")
    ELSE fallbackShape(payload)

\* leagues.length ? leagues : keysToLeagues(standingsByLeague)
PayloadItems(payload) ==
    IF Len(PayloadLeagues(payload)) > 0
    THEN PayloadLeagues(payload)
    ELSE keysToLeagues(PayloadStandings(payload))

\* opt.name || opt.div || opt.label || opt.id
OptionText(opt) ==
    IF Has(opt, "name") /\ opt.name # "" THEN opt.name
    ELSE IF Has(opt, "div") /\ opt.div # "" THEN opt.div
    ELSE IF Has(opt, "label") /\ opt.label # "" THEN opt.label
    ELSE opt.id

\* the <option>s populateLeagueDropdown builds
DropdownOptions(items) ==
    [i \in 1..Len(items) |-> [value |-> items[i].id, text |-> OptionText(items[i])]]

-----------------------------------------------------------------------------
(* Initial state: the module-level declarations, message listener installed *)

PageLoad ==
    /\ table = FALSE
    /\ tableData = <<>>
    /\ tableLayout = NoLayout
    /\ currentLayout = NoLayout
    /\ viewportWidth \in {Breakpoint - 1, Breakpoint}
    /\ activeLeagueId = NoLeague
    /\ standingsByLeague = EmptyMap
    /\ leagues = <<>>
    /\ domReady = FALSE
    /\ pendingPayload = Null
    /\ initReceived = FALSE
    /\ selOptions = <<>>
    /\ selValue = ""
    /\ rafQueue = <<>>
    /\ timeouts = <<>>
    /\ bootTimer = FALSE
    /\ resizeTimer = NoTimer
    /\ tablesCreated = 0
    /\ resizes = 0
    /\ quiet = 0
    /\ burst = 0
    /\ received = 0
    /\ initArrived = FALSE
    /\ earlyInits = 0
    /\ inOrder = EmptyMap
    /\ sampleInstalls = 0
    /\ last = [op |-> "load", league |-> NoLeague, valid |-> TRUE,
               renders |-> 0, processed |-> 0, error |-> FALSE]

Init ==
    /\ PageLoad
    /\ cellValue = <<>>
    /\ cellUrl = NoValue
    /\ cellHtml = NoHtml

\* what a handler reports of itself in the history variable
Did(op, league, valid, renders, nprocessed, error) ==
    [op |-> op, league |-> league, valid |-> valid,
     renders |-> renders, processed |-> nprocessed, error |-> error]

-----------------------------------------------------------------------------
(* renderLeague, initTable, scheduleInitialRender, processInitPayload *)

\* NeedsTable that holds at every render
NeedsTableAlways == TRUE

\* if (!table) initTable()
NeedsTable == ~table

\* renderLeague(leagueId) run against the stored standings sbl; initTable()
\* runs first when the table does not exist yet
renderLeague(leagueId, sbl) ==
    /\ activeLeagueId' = leagueId
    /\ standingsByLeague' = StoredAfterRender(sbl, leagueId)
    /\ table' = TRUE
    /\ IF NeedsTable
       THEN /\ currentLayout' = getLayout(viewportWidth)
            /\ tableLayout' = getLayout(viewportWidth)
            /\ tablesCreated' = tablesCreated + 1
       ELSE UNCHANGED << currentLayout, tableLayout, tablesCreated >>
    /\ tableData' = setData(tableData, RenderRows(sbl, leagueId))

NoRender == UNCHANGED << table, tableData, tableLayout, currentLayout, tablesCreated,
                         activeLeagueId >>

\* scheduleInitialRender(leagueId): render now, on the next frame, after 60ms
scheduleInitialRender(leagueId, sbl) ==
    /\ renderLeague(leagueId, sbl)
    /\ rafQueue' = Append(rafQueue, leagueId)
    /\ timeouts' = Append(timeouts, leagueId)

\* processInitPayload(payload), payload an object
processInitPayload(payload) ==
    \E items \in {PayloadItems(payload)}, sbl \in {PayloadStandings(payload).val} :
        /\ leagues' = PayloadLeagues(payload)
        /\ selOptions' = DropdownOptions(items)
        /\ selValue' = IF Len(items) > 0 THEN items[1].id ELSE ""
        /\ IF Len(items) > 0
           THEN \E firstId \in {items[1].id} : scheduleInitialRender(firstId, sbl)
           ELSE /\ standingsByLeague' = sbl
                /\ NoRender /\ UNCHANGED << rafQueue, timeouts >>

\* IsDisplayed that holds of every league
IsDisplayedAlways(leagueId) == TRUE

\* IsDisplayed that holds of no league
IsDisplayedNever(leagueId) == FALSE

\* activeLeagueId === payload.leagueId, the test of the UPDATE_TABLE branch
IsDisplayed(leagueId) == activeLeagueId = leagueId

\* StillActive that holds of every league
StillActiveAlways(leagueId) == TRUE

\* activeLeagueId === leagueId, the test of the two deferred attempts
StillActive(leagueId) == activeLeagueId = leagueId

\* ShouldLoadSample with the test on the stored standings inverted
ShouldLoadSampleInverted == ~initReceived /\ DOMAIN standingsByLeague # {}

\* ShouldLoadSample without the test on initReceived
ShouldLoadSampleIgnoresInit == DOMAIN standingsByLeague = {}

\* !initReceived && Object.keys(standingsByLeague).length === 0
ShouldLoadSample == ~initReceived /\ DOMAIN standingsByLeague = {}

\* number of renderLeague calls processInitPayload(payload) makes itself
InitRenders(payload) == IF Len(PayloadItems(payload)) > 0 THEN 1 ELSE 0

NoInit == UNCHANGED << leagues, standingsByLeague, selOptions, selValue,
                       rafQueue, timeouts >>

-----------------------------------------------------------------------------
(* onMessageFromHost *)

\* { type: "INIT_WIDGET", payload }
InitWidget(payload) ==
    /\ received < MaxMsgs
    /\ received' = received + 1
    /\ initArrived' = TRUE
    /\ initReceived' = TRUE
    /\ inOrder' = IF Truthy(payload) THEN PayloadStandings(payload).val ELSE inOrder
    /\ UNCHANGED << viewportWidth, domReady, bootTimer, sampleInstalls,
                    resizeVars, cellVars >>
    /\ IF ~domReady
       THEN /\ pendingPayload' = payload
            /\ earlyInits' = IF Truthy(payload) THEN earlyInits + 1 ELSE earlyInits
            /\ NoInit /\ NoRender
            /\ last' = Did("INIT_WIDGET", NoLeague, Truthy(payload), 0, 0, FALSE)
       ELSE IF ~Truthy(payload)
       THEN \* payload.leagues on undefined: TypeError, the handler is abandoned
            /\ NoInit /\ NoRender
            /\ UNCHANGED << pendingPayload, earlyInits >>
            /\ last' = Did("INIT_WIDGET", NoLeague, FALSE, 0, 0, TRUE)
       ELSE /\ processInitPayload(payload)
            /\ UNCHANGED << pendingPayload, earlyInits >>
            /\ last' = Did("INIT_WIDGET", NoLeague, TRUE, InitRenders(payload), 1, FALSE)

\* payload?.leagueId && Array.isArray(payload.standings)
UpdateAccepted(payload) ==
    /\ Has(payload, "leagueId") /\ payload.leagueId # ""
    /\ Has(payload, "standings") /\ IsArray(payload.standings)

\* { type: "UPDATE_TABLE", payload }
UpdateTable(payload) ==
    /\ received < MaxMsgs
    /\ received' = received + 1
    /\ UNCHANGED << viewportWidth, domReady, bootTimer, sampleInstalls, initArrived,
                    initReceived, pendingPayload, earlyInits, leagues, selOptions,
                    selValue, rafQueue, timeouts, resizeVars, cellVars >>
    /\ IF UpdateAccepted(payload)
       THEN \E sbl \in {(payload.leagueId :> payload.standings.items) @@ standingsByLeague} :
                /\ inOrder' = (payload.leagueId :> payload.standings.items) @@ inOrder
                /\ IF IsDisplayed(payload.leagueId)
                   THEN /\ renderLeague(activeLeagueId, sbl)
                        /\ last' = Did("UPDATE_TABLE", payload.leagueId, TRUE, 1, 0, FALSE)
                   ELSE /\ standingsByLeague' = sbl
                        /\ NoRender
                        /\ last' = Did("UPDATE_TABLE", payload.leagueId, TRUE, 0, 0, FALSE)
       ELSE /\ UNCHANGED << standingsByLeague, inOrder >>
            /\ NoRender
            /\ last' = Did("UPDATE_TABLE", NoLeague, FALSE, 0, 0, FALSE)

\* event.data without a type, or with a type the listener does not know
OtherMessage(type) ==
    /\ received < MaxMsgs
    /\ received' = received + 1
    /\ NoInit /\ NoRender
    /\ UNCHANGED << viewportWidth, domReady, bootTimer, sampleInstalls, initArrived,
                    initReceived, pendingPayload, earlyInits, inOrder,
                    resizeVars, cellVars >>
    /\ last' = Did("message", NoLeague, FALSE, 0, 0, FALSE)

-----------------------------------------------------------------------------
(* DOMContentLoaded and the timers *)

DOMContentLoaded ==
    /\ ~domReady
    /\ domReady' = TRUE
    /\ bootTimer' = TRUE
    /\ pendingPayload' = IF Truthy(pendingPayload) THEN Null ELSE pendingPayload
    /\ UNCHANGED << viewportWidth, received, initArrived, initReceived, earlyInits,
                    inOrder, sampleInstalls, resizeVars, cellVars >>
    /\ IF Truthy(pendingPayload)
       THEN /\ processInitPayload(pendingPayload)
            /\ last' = Did("DOMContentLoaded", NoLeague, TRUE,
                           InitRenders(pendingPayload), 1, FALSE)
       ELSE /\ NoInit /\ NoRender
            /\ last' = Did("DOMContentLoaded", NoLeague, TRUE, 0, 0, FALSE)

\* the setTimeout(.., 250) callback of DOMContentLoaded
BootstrapTimer ==
    /\ bootTimer
    /\ bootTimer' = FALSE
    /\ UNCHANGED << viewportWidth, domReady, received, initArrived, initReceived,
                    pendingPayload, earlyInits, resizeVars, cellVars >>
    /\ IF ShouldLoadSample
       THEN /\ processInitPayload(SAMPLE_PAYLOAD)
            /\ sampleInstalls' = sampleInstalls + 1
            /\ inOrder' = PayloadStandings(SAMPLE_PAYLOAD).val
            /\ last' = Did("bootstrap", NoLeague, TRUE, InitRenders(SAMPLE_PAYLOAD), 1, FALSE)
       ELSE /\ NoInit /\ NoRender
            /\ UNCHANGED << sampleInstalls, inOrder >>
            /\ last' = Did("bootstrap", NoLeague, TRUE, 0, 0, FALSE)

\* a deferred attempt of scheduleInitialRender(leagueId)
DeferredRender(op, leagueId) ==
    /\ UNCHANGED << viewportWidth, domReady, bootTimer, received, initArrived,
                    initReceived, pendingPayload, earlyInits, inOrder, sampleInstalls,
                    leagues, selOptions, selValue, resizeVars, cellVars >>
    /\ IF StillActive(leagueId)
       THEN /\ renderLeague(leagueId, standingsByLeague)
            /\ last' = Did(op, leagueId, TRUE, 1, 0, FALSE)
       ELSE /\ NoRender
            /\ UNCHANGED standingsByLeague
            /\ last' = Did(op, leagueId, TRUE, 0, 0, FALSE)

\* the requestAnimationFrame callback
AnimationFrame ==
    /\ rafQueue # <<>>
    /\ rafQueue' = Tail(rafQueue)
    /\ UNCHANGED timeouts
    /\ DeferredRender("raf", Head(rafQueue))

\* the setTimeout(.., 60) callback
Timeout60 ==
    /\ timeouts # <<>>
    /\ timeouts' = Tail(timeouts)
    /\ UNCHANGED rafQueue
    /\ DeferredRender("timeout", Head(timeouts))

\* the user picks another <option> of #leagueSelect: change -> renderLeague(sel.value)
SelectChange(value) ==
    /\ domReady
    /\ value # selValue
    /\ selValue' = value
    /\ renderLeague(value, standingsByLeague)
    /\ UNCHANGED << viewportWidth, domReady, bootTimer, received, initArrived,
                    initReceived, pendingPayload, earlyInits, inOrder, sampleInstalls,
                    leagues, selOptions, rafQueue, timeouts, resizeVars, cellVars >>
    /\ last' = Did("change", value, TRUE, 1, 0, FALSE)

-----------------------------------------------------------------------------
(* The team-name cell: cellClick *)

\* ClickPosts that holds of every row
ClickPostsAlways(data) == TRUE

\* if (data?.teamUrl): the row carries a team URL that is not empty
ClickPosts(data) == Has(data, "teamUrl") /\ data.teamUrl # ""

\* data.equipeName, undefined when the row has none
ClickedName(data) == IF Has(data, "equipeName") THEN data.equipeName ELSE Undefined

\* the messages cellClick hands to window.parent.postMessage
ClickMessages(data) ==
    IF ClickPosts(data)
    THEN << [type |-> "TEAM_CLICK",
             payload |-> [leagueId |-> activeLeagueId,
                          equipeName |-> ClickedName(data),
                          url |-> IF Has(data, "teamUrl") THEN data.teamUrl ELSE Undefined]] >>
    ELSE <<>>

\* a click on the team-name cell of the i-th row of the table
CellClick(i) ==
    /\ table
    /\ i \in 1..Len(tableData)
    /\ last' = ("posted" :> ClickMessages(tableData[i]))
                @@ ("row" :> i) @@ Did("click", activeLeagueId, TRUE, 0, 0, FALSE)
    /\ NoInit /\ NoRender
    /\ UNCHANGED << viewportWidth, domReady, bootTimer, received, initArrived,
                    initReceived, pendingPayload, earlyInits, inOrder, sampleInstalls,
                    resizeVars, cellVars >>

-----------------------------------------------------------------------------
(* The team-name cell: formatter, escapeHtml, escapeAttr.  A string is the   *)
(* sequence of its pieces: each of the characters & < > " ' is a piece of    *)
(* its own, a run of other characters is one piece.                          *)

\* the replacement escapeHtml makes of one piece
HtmlEntity(c) ==
    IF c = "&" THEN << "&", "amp;" >>
    ELSE IF c = "<" THEN << "&", "lt;" >>
    ELSE IF c = ">" THEN << "&", "gt;" >>
    ELSE IF c = "\"" THEN << "&", "quot;" >>
    ELSE IF c = "'" THEN << "&", "#39;" >>
    ELSE << c >>

\* String(s).replace(/[&<>"']/g, m => entity of m)
RECURSIVE escapeHtml(_)
escapeHtml(str) ==
    IF str = <<>> THEN <<>> ELSE HtmlEntity(Head(str)) \o escapeHtml(Tail(str))

\* AttrEntity that replaces nothing
AttrEntityKeepsQuote(c) == << c >>

\* the replacement escapeAttr makes of one piece
AttrEntity(c) == IF c = "\"" THEN << "&", "quot;" >> ELSE << c >>

\* String(s).replace(/"/g, '&quot;')
RECURSIVE escapeAttr(_)
escapeAttr(str) ==
    IF str = <<>> THEN <<>> ELSE AttrEntity(Head(str)) \o escapeAttr(Tail(str))

\* cell.getValue() || ""
CellLabel(value) == IF value = NoValue THEN <<>> ELSE value

\* the markup the formatter returns for a cell of this value in a row of this teamUrl
formatter(value, url) ==
    LET safe == escapeHtml(CellLabel(value))
    IN  IF url # NoValue /\ url # <<>>
        THEN << "<", "span class=", "\"", "team-link", "\"", " data-href=", "\"" >>
             \o escapeAttr(url) \o << "\"", ">" >> \o safe \o << "<", "/span", ">" >>
        ELSE << "<", "span class=", "\"", "team-text", "\"", ">" >>
             \o safe \o << "<", "/span", ">" >>

\* the pieces team names are made of
NameChars == { "&", "<", ">", "\"", "'", "a", "amp;" }

\* the pieces team URLs are made of
UrlChars == { "\"", "<", "&", "/t", "quot;" }

\* every string of at most n pieces of the set chars
RECURSIVE Strings(_, _)
Strings(chars, n) ==
    IF n = 0 THEN { <<>> }
    ELSE Strings(chars, n - 1)
         \cup { Append(t, c) : t \in { u \in Strings(chars, n - 1) : Len(u) = n - 1 },
                               c \in chars }

\* Tabulator calls the formatter of the team-name cell
FormatCell ==
    /\ cellHtml = NoHtml
    /\ cellHtml' = formatter(cellValue, cellUrl)
    /\ NoInit /\ NoRender
    /\ UNCHANGED << cellValue, cellUrl, viewportWidth, domReady, bootTimer, received,
                    initArrived, initReceived, pendingPayload, earlyInits, inOrder,
                    sampleInstalls, resizeVars, last >>

-----------------------------------------------------------------------------
(* The resize listener of initTable: debounce(onResize, 120) *)

Widths == { Breakpoint - 1, Breakpoint }

\* the time that passes between two events, in ms
TimeSteps == { 40, DebounceWait }

\* debounce that leaves a pending timer running
DebouncedKeepsPending(t) == IF t # NoTimer THEN t ELSE DebounceWait

\* clearTimeout(t); t = setTimeout(.., wait): the timer a call of the debounced
\* listener leaves behind, whatever timer t was pending
Debounced(t) == DebounceWait

\* the window is resized to the width w; the listener exists once initTable ran
Resize(w) ==
    /\ resizes < MaxResizes
    /\ resizes' = resizes + 1
    /\ viewportWidth' = w
    /\ IF table
       THEN /\ resizeTimer' = Debounced(resizeTimer)
            /\ quiet' = 0
            /\ burst' = burst + 1
       ELSE UNCHANGED << resizeTimer, quiet, burst >>
    /\ last' = Did("resize", NoLeague, TRUE, 0, 0, FALSE)
    /\ NoInit /\ NoRender
    /\ UNCHANGED << domReady, bootTimer, received, initArrived, initReceived,
                    pendingPayload, earlyInits, inOrder, sampleInstalls, cellVars >>

\* d ms pass while the timer of the debounced listener is running
Tick(d) ==
    /\ resizeTimer # NoTimer
    /\ d <= resizeTimer
    /\ resizeTimer' = resizeTimer - d
    /\ quiet' = quiet + d
    /\ UNCHANGED << table, tableData, tableLayout, currentLayout, viewportWidth,
                    activeLeagueId, standingsByLeague, leagues, domReady, pendingPayload,
                    initReceived, selOptions, selValue, rafQueue, timeouts, bootTimer,
                    cellVars, tablesCreated, resizes, burst, received, initArrived,
                    earlyInits, inOrder, sampleInstalls, last >>

\* the timer of the debounced listener fires: onResize()
onResize ==
    /\ resizeTimer = 0
    /\ resizeTimer' = NoTimer
    /\ burst' = 0
    /\ \E next \in {getLayout(viewportWidth)} :
          IF next # currentLayout /\ table
          THEN /\ tableLayout' = next
               /\ currentLayout' = next
               /\ last' = ("setOptions" :> << next >>) @@ ("redraws" :> 1)
                           @@ ("events" :> burst) @@ Did("onResize", NoLeague, TRUE, 0, 0, FALSE)
          ELSE /\ UNCHANGED << tableLayout, currentLayout >>
               /\ last' = ("setOptions" :> <<>>) @@ ("redraws" :> 0)
                           @@ ("events" :> burst) @@ Did("onResize", NoLeague, TRUE, 0, 0, FALSE)
    /\ NoInit
    /\ UNCHANGED << table, tableData, tablesCreated, activeLeagueId, viewportWidth,
                    domReady, bootTimer, received, initArrived, initReceived,
                    pendingPayload, earlyInits, inOrder, sampleInstalls,
                    resizes, quiet, cellVars >>

-----------------------------------------------------------------------------

Next ==
    \/ \E payload \in InitPayloads : InitWidget(payload)
    \/ \E payload \in UpdatePayloads : UpdateTable(payload)
    \/ \E type \in OtherTypes : OtherMessage(type)
    \/ DOMContentLoaded
    \/ BootstrapTimer
    \/ AnimationFrame
    \/ Timeout60
    \/ \E i \in 1..Len(selOptions) : SelectChange(selOptions[i].value)

Spec == Init /\ [][Next]_vars

\* Every sequence of at most n rows of the set rows
RECURSIVE SeqsUpTo(_, _)
SeqsUpTo(rows, n) ==
    IF n = 0 THEN { <<>> }
    ELSE SeqsUpTo(rows, n - 1)
         \cup { Append(s, r) : s \in { t \in SeqsUpTo(rows, n - 1) : Len(t) = n - 1 },
                               r \in rows }

RankRows == { RowX, RowY, RowV, RowZ, RowW, RowBare, RowNeg }

\* an INIT_WIDGET payload that carries the rows s for the one league "A"
RankPayload(s) ==
    Obj(<< "standingsByLeague" >>, "standingsByLeague" :> Obj(<< "A" >>, "A" :> s))

\* The page loads of a host that sends one INIT_WIDGET, before or after
\* DOM-ready, its league holding any sequence of at most MaxRows rows
NextRank ==
    \/ \E s \in SeqsUpTo(RankRows, MaxRows) : received = 0 /\ InitWidget(RankPayload(s))
    \/ DOMContentLoaded
    \/ BootstrapTimer
    \/ AnimationFrame
    \/ Timeout60

RankSpec == Init /\ [][NextRank]_vars

\* The page loads of a widget in a window that is resized and whose cells are
\* clicked: the host sends at most one INIT_WIDGET
NextUi ==
    \/ received = 0 /\ InitWidget(PayloadMapOnly)
    \/ DOMContentLoaded
    \/ BootstrapTimer
    \/ AnimationFrame
    \/ Timeout60
    \/ \E i \in 1..Len(selOptions) : SelectChange(selOptions[i].value)
    \/ \E i \in 1..Len(tableData) : CellClick(i)
    \/ \E w \in Widths : Resize(w)
    \/ \E d \in TimeSteps : Tick(d)
    \/ onResize

UiSpec == Init /\ [][NextUi]_vars

\* The cells the formatter is given: any team name and any team URL of at most
\* MaxChars pieces, or a row without name, or without URL
InitFormat ==
    /\ PageLoad
    /\ cellValue \in Strings(NameChars, MaxChars) \cup {NoValue}
    /\ cellUrl \in Strings(UrlChars, MaxChars) \cup {NoValue}
    /\ cellHtml = NoHtml

NextFormat == FormatCell

FormatSpec == InitFormat /\ [][NextFormat]_vars

\* The browser fires DOMContentLoaded once the document is parsed, and runs
\* the callback of a timer that was set
FairSpec == Spec /\ WF_vars(DOMContentLoaded) /\ WF_vars(BootstrapTimer)

TypeOK ==
    /\ table \in BOOLEAN
    /\ received \in 0..MaxMsgs
    /\ activeLeagueId \in LeagueIds \cup {SampleLeagueId, NoLeague}

-----------------------------------------------------------------------------
(* Vocabulary of the properties, stated without the operators of the model *)

\* a numeric field of a row, a missing one counting as 0
FieldOrZero(r, f) == IF f \in DOMAIN r THEN r[f] ELSE 0

\* the team name of a row, a missing one counting as the empty name
NameOrEmpty(r) == IF "equipeName" \in DOMAIN r THEN r.equipeName ELSE ""

NameBefore(a, b) ==
    \E i, j \in 1..Len(Collation) :
        /\ Collation[i] = NameOrEmpty(a) /\ Collation[j] = NameOrEmpty(b) /\ i < j

\* a ranks strictly above b in the 5-level chain
ChainBefore(a, b) ==
    LET P(r) == FieldOrZero(r, "points")
        D(r) == FieldOrZero(r, "differentiel")
        B(r) == FieldOrZero(r, "butsPour")
        V(r) == FieldOrZero(r, "victoires")
    IN  \/ P(a) > P(b)
        \/ P(a) = P(b) /\ D(a) > D(b)
        \/ P(a) = P(b) /\ D(a) = D(b) /\ B(a) > B(b)
        \/ P(a) = P(b) /\ D(a) = D(b) /\ B(a) = B(b) /\ V(a) > V(b)
        \/ P(a) = P(b) /\ D(a) = D(b) /\ B(a) = B(b) /\ V(a) = V(b) /\ NameBefore(a, b)

\* a row without its position
Unranked(r) == [f \in (DOMAIN r) \ {"position"} |-> r[f]]

\* d holds the rows of s, each as often as s does, whatever their positions
SameRows(d, s) ==
    /\ Len(d) = Len(s)
    /\ \A i \in 1..Len(d) :
          Cardinality({j \in 1..Len(d) : Unranked(d[j]) = Unranked(d[i])})
              = Cardinality({j \in 1..Len(s) : Unranked(s[j]) = Unranked(d[i])})

\* d is in the order of the chain
ChainOrdered(d) == \A i, j \in 1..Len(d) : i < j => ~ChainBefore(d[j], d[i])

\* d numbers its rows 1, 2, ... in sequence
Numbered(d) == \A i \in 1..Len(d) : "position" \in DOMAIN d[i] /\ d[i].position = i

\* d is the ranking of the rows s
IsRankingOf(d, s) == SameRows(d, s) /\ ChainOrdered(d) /\ Numbered(d)

\* the rows stored for a league, none when the league has no entry
RowsOf(sbl, leagueId) == IF leagueId \in DOMAIN sbl THEN sbl[leagueId] ELSE <<>>

\* an UPDATE_TABLE payload with a league identifier and an array of standings
WellFormedUpdate(p) ==
    /\ "leagueId" \in DOMAIN p /\ p.leagueId # ""
    /\ "standings" \in DOMAIN p /\ p.standings.isArray

-----------------------------------------------------------------------------
(* C1 *)

\* C1: messages are processed in arrival order: once DOM-ready has been
\* handled, the stored standings mapping equals the mapping obtained by
\* applying every message at the moment it arrived.  (Stated for the page
\* loads whose pending slot was not left holding an INIT_WIDGET without
\* payload, which C10 treats.)
C1_ArrivalOrder ==
    (domReady /\ pendingPayload # Undefined) => standingsByLeague = inOrder

-----------------------------------------------------------------------------
(* C2 *)

\* C2: every render pushes to the table the stored rows of the league, ordered
\* by points, differentiel, butsPour, victoires (descending) then equipeName
\* (ascending), a missing numeric field counting as 0; X(3, 1) and Y(3, 2) are
\* displayed as Y then X.
C2_RenderOrder ==
    last.renders > 0 =>
        /\ ~last.error
        /\ SameRows(tableData, RowsOf(standingsByLeague, activeLeagueId))
        /\ ChainOrdered(tableData)
        /\ RowsOf(standingsByLeague, activeLeagueId) = << RowX, RowY >>
              => << tableData[1].equipeName, tableData[2].equipeName >> = << "Y", "X" >>

C2_Witness ==
    /\ last.renders > 0
    /\ RowsOf(standingsByLeague, activeLeagueId) = << RowX, RowY >>
    /\ tableData[1].equipeName = "Y"

-----------------------------------------------------------------------------
(* C3 *)

\* C3: the displayed rows carry the positions 1, 2, ... in sequence, whatever
\* position the stored rows carry.
C3_Positions == Numbered(tableData)

C3_Witness ==
    /\ last.renders > 0
    /\ \E i \in 1..Len(tableData) :
          \E k \in 1..Len(RowsOf(standingsByLeague, activeLeagueId)) :
              LET r == RowsOf(standingsByLeague, activeLeagueId)[k]
              IN  /\ Unranked(r) = Unranked(tableData[i])
                  /\ "position" \in DOMAIN r
                  /\ r.position # i

-----------------------------------------------------------------------------
(* C4 *)

\* C4: a well-formed UPDATE_TABLE for a league that is not active replaces the
\* stored standings of that league only, keeps the active league and triggers
\* no render; when the selector then makes a league active, the render shows
\* the rows stored for it.
C4_InactiveUpdateStep ==
    \A p \in UpdatePayloads :
        (WellFormedUpdate(p) /\ p.leagueId # activeLeagueId /\ UpdateTable(p)) =>
            /\ DOMAIN standingsByLeague' = DOMAIN standingsByLeague \cup {p.leagueId}
            /\ standingsByLeague'[p.leagueId] = p.standings.items
            /\ \A k \in DOMAIN standingsByLeague \ {p.leagueId} :
                  standingsByLeague'[k] = standingsByLeague[k]
            /\ activeLeagueId' = activeLeagueId
            /\ tableData' = tableData /\ table' = table
            /\ last'.renders = 0

C4_SelectStep ==
    \A v \in LeagueIds \cup {SampleLeagueId} :
        SelectChange(v) =>
            /\ activeLeagueId' = v
            /\ last'.renders = 1
            /\ IsRankingOf(tableData', RowsOf(standingsByLeague, v))

-----------------------------------------------------------------------------
(* C5 *)

\* C5: a well-formed UPDATE_TABLE for the active league renders that league,
\* and the rows displayed are the ranking of the standings it carries.
C5_ActiveUpdateStep ==
    \A p \in UpdatePayloads :
        (WellFormedUpdate(p) /\ p.leagueId = activeLeagueId /\ UpdateTable(p)) =>
            /\ last'.renders = 1
            /\ activeLeagueId' = activeLeagueId
            /\ IsRankingOf(tableData', p.standings.items)

C5_ActiveUpdateRenders == [][C5_ActiveUpdateStep]_vars

C5_Witness ==
    /\ last.op = "UPDATE_TABLE" /\ last.renders = 1 /\ last.league = activeLeagueId
    /\ leagues = PayloadLeagues(PayloadAB)
    /\ IsRankingOf(tableData, StandingsChain)

-----------------------------------------------------------------------------
(* C6 *)

\* C6: an INIT_WIDGET marks 'init received'; before DOM-ready its payload is
\* stored and nothing is processed; at DOM-ready every payload received before
\* it is processed exactly once and the pending slot is left empty; after
\* DOM-ready a payload is processed within the message handler.  No
\* INIT_WIDGET received before DOM-ready is dropped.
C6_InitStep ==
    \A p \in InitPayloads :
        InitWidget(p) =>
            /\ initReceived'
            /\ ~domReady =>
                  /\ pendingPayload' = p
                  /\ last'.processed = 0 /\ last'.renders = 0
                  /\ UNCHANGED << standingsByLeague, leagues, selOptions, selValue,
                                  tableData, activeLeagueId >>
            /\ (domReady /\ p # Undefined) =>
                  /\ last'.processed = 1
                  /\ pendingPayload' = pendingPayload

C6_ReadyStep ==
    DOMContentLoaded =>
        /\ last'.processed = earlyInits
        /\ pendingPayload' \in {Null, Undefined}

C6_EarlyInitNeverDropped == [][C6_InitStep /\ C6_ReadyStep]_vars

\* the parts of C6 that do not depend on how many payloads the slot holds
C6_Buffering ==
    [][C6_InitStep /\ (DOMContentLoaded => pendingPayload' \in {Null, Undefined})]_vars

-----------------------------------------------------------------------------
(* C7 *)

SampleShown ==
    /\ table
    /\ standingsByLeague = (SampleLeagueId :> SampleRows)
    /\ activeLeagueId = SampleLeagueId
    /\ IsRankingOf(tableData, SampleRows)
    /\ tableData # <<>>

\* C7: when the bootstrap timer fires with no INIT_WIDGET arrived and nothing
\* stored, the sample dataset becomes the stored standings, its first league
\* the active one, and its rows are displayed; with DOM-ready and the timer
\* fairly scheduled, a widget that receives no message ends up displaying the
\* sample dataset.
C7_TimerStep ==
    (BootstrapTimer /\ ~initArrived /\ DOMAIN standingsByLeague = {}) => SampleShown'

C7_SampleFallback == [][C7_TimerStep]_vars /\ <>(received > 0 \/ SampleShown)

C7_Witness == last.op = "bootstrap" /\ received = 0 /\ SampleShown

-----------------------------------------------------------------------------
(* C8 *)

\* C8: the sample dataset is installed only by the bootstrap timer, only if no
\* INIT_WIDGET has arrived and nothing is stored when it fires, and at most
\* once per page load.
C8_TimerStep ==
    (BootstrapTimer /\ (initArrived \/ DOMAIN standingsByLeague # {})) =>
        /\ sampleInstalls' = sampleInstalls
        /\ last'.processed = 0
        /\ UNCHANGED << standingsByLeague, leagues, selOptions, tableData, activeLeagueId >>

C8_InstallStep ==
    sampleInstalls' # sampleInstalls =>
        /\ bootTimer /\ ~bootTimer'
        /\ ~initArrived /\ DOMAIN standingsByLeague = {}

C8_SampleOnlyWithoutInit ==
    [][C8_TimerStep /\ C8_InstallStep]_vars /\ [](sampleInstalls <= 1)

C8_Witness ==
    /\ last.op = "bootstrap" /\ initArrived
    /\ DOMAIN standingsByLeague = {} /\ sampleInstalls = 0

-----------------------------------------------------------------------------
(* C9 *)

\* C9: when the Initializer first shows a league L it renders L at once and
\* schedules one attempt on the next animation frame and one after 60ms; a
\* deferred attempt that fires while another league is active pushes nothing
\* to the table and leaves the active league alone, one that fires while L is
\* active renders L.
C9_ScheduleStep ==
    (last'.processed = 1 /\ selOptions' # <<>>) =>
        LET L == selOptions'[1].value
        IN  /\ activeLeagueId' = L
            /\ last'.renders = 1
            /\ IsRankingOf(tableData', RowsOf(standingsByLeague', L))
            /\ rafQueue' = Append(rafQueue, L)
            /\ timeouts' = Append(timeouts, L)

C9_Attempt(L) ==
    IF L # activeLeagueId
    THEN /\ last'.renders = 0
         /\ UNCHANGED << tableData, table, activeLeagueId, standingsByLeague, selValue >>
    ELSE /\ last'.renders = 1
         /\ activeLeagueId' = L
         /\ IsRankingOf(tableData', RowsOf(standingsByLeague, L))

C9_DeferredStep ==
    /\ AnimationFrame => C9_Attempt(Head(rafQueue))
    /\ Timeout60 => C9_Attempt(Head(timeouts))

C9_RenderRetry == [][C9_ScheduleStep /\ C9_DeferredStep]_vars

C9_Witness ==
    /\ last.op \in {"raf", "timeout"} /\ last.renders = 0
    /\ table /\ last.league # activeLeagueId

-----------------------------------------------------------------------------
(* C10 *)

\* C10: a message with no recognised kind, an UPDATE_TABLE lacking a league
\* identifier or an array of standings, and an INIT_WIDGET without payload are
\* ignored silently: no error, no render, and the stored standings, the
\* league list and the active league stay as they were.
C10_Ignored ==
    /\ ~last'.error
    /\ last'.renders = 0
    /\ UNCHANGED << standingsByLeague, leagues, activeLeagueId, tableData, table >>

C10_MalformedStep ==
    /\ \A t \in OtherTypes : OtherMessage(t) => C10_Ignored
    /\ \A p \in UpdatePayloads : (~WellFormedUpdate(p) /\ UpdateTable(p)) => C10_Ignored
    /\ InitWidget(Undefined) => C10_Ignored

C10_MalformedIgnored == [][C10_MalformedStep]_vars

-----------------------------------------------------------------------------
(* Vocabulary of the properties on INIT_WIDGET payloads *)

\* the property k of the payload p is present and is not null
Carries(p, k) == k \in DOMAIN p.val /\ p.val[k] \notin {Null, Undefined}

\* the league list of a payload, empty when it carries none
ListedLeagues(p) == IF Carries(p, "leagues") THEN p.val["leagues"].items ELSE <<>>

\* the value v is an array
IsArr(v) == "isArray" \in DOMAIN v /\ v.isArray

\* the top-level properties of a payload whose value is an array, in key order
ArrayKeys(p) ==
    LET n == Cardinality({i \in 1..Len(p.keys) : IsArr(p.val[p.keys[i]])})
    IN  CHOOSE ks \in [1..n -> DOMAIN p.val] :
            /\ \A i \in 1..n : IsArr(p.val[ks[i]])
            /\ \A i, j \in 1..n : i < j =>
                   \E a, b \in 1..Len(p.keys) : a < b /\ p.keys[a] = ks[i] /\ p.keys[b] = ks[j]

\* the keys of the mapping of a payload, in order
MappingKeys(p) ==
    IF Carries(p, "standingsByLeague") THEN p.val["standingsByLeague"].keys ELSE ArrayKeys(p)

\* the mapping of a payload: standingsByLeague, else its array-valued properties
MappingOf(p) ==
    IF Carries(p, "standingsByLeague")
    THEN p.val["standingsByLeague"].val
    ELSE [k \in {k \in DOMAIN p.val : IsArr(p.val[k])} |-> p.val[k].items]

\* the identifiers of the leagues that resolve from a payload, in order
ResolvedIds(p) ==
    IF ListedLeagues(p) # <<>>
    THEN [i \in 1..Len(ListedLeagues(p)) |-> ListedLeagues(p)[i].id]
    ELSE MappingKeys(p)

\* the step processes the initialization payload p
Processes(p) ==
    \/ domReady /\ InitWidget(p)
    \/ pendingPayload = p /\ DOMContentLoaded
    \/ p = SAMPLE_PAYLOAD /\ BootstrapTimer /\ sampleInstalls' # sampleInstalls

-----------------------------------------------------------------------------
(* C11 *)

\* C11: processing an initialization payload from which no league resolves is
\* a silent no-op: no error, no entry added to the selector, no render, and the
\* stored standings, the active league and the displayed rows stay as they
\* were.
C11_NoOpStep ==
    \A p \in InitPayloads \ {Undefined} :
        (ResolvedIds(p) = <<>> /\ Processes(p)) =>
            /\ ~last'.error
            /\ last'.renders = 0
            /\ selOptions' \in {<<>>, selOptions}
            /\ UNCHANGED << standingsByLeague, activeLeagueId, tableData >>

C11_EmptyInitIsNoOp == [][C11_NoOpStep]_vars

-----------------------------------------------------------------------------
(* C12 *)

\* C12: after processing an initialization payload that resolves at least one
\* league, the stored mapping is the mapping of the payload (standingsByLeague
\* if present, else its array-valued top-level properties); the selector holds
\* one entry per resolved league, in order (the league list if it is not
\* empty, else one league per key of the mapping, named by its identifier);
\* the first resolved league is the value of the selector and the active
\* league, and it has been rendered.
C12_ProcessStep ==
    \A p \in (InitPayloads \ {Undefined}) \cup {SAMPLE_PAYLOAD} :
        (ResolvedIds(p) # <<>> /\ Processes(p)) =>
            LET ids == ResolvedIds(p)
            IN  /\ standingsByLeague' = MappingOf(p)
                /\ Len(selOptions') = Len(ids)
                /\ \A i \in 1..Len(ids) : selOptions'[i].value = ids[i]
                /\ ListedLeagues(p) = <<>> =>
                       \A i \in 1..Len(ids) : selOptions'[i].text = ids[i]
                /\ selValue' = ids[1]
                /\ activeLeagueId' = ids[1]
                /\ last'.renders = 1 /\ ~last'.error
                /\ IsRankingOf(tableData', RowsOf(MappingOf(p), ids[1]))

C12_InitResult == [][C12_ProcessStep]_vars

C12_Witness ==
    /\ last.processed = 1 /\ last.renders = 1
    /\ standingsByLeague = ("A" :> StandingsChain)
    /\ selOptions = << [value |-> "A", text |-> "A"] >>
    /\ activeLeagueId = "A" /\ selValue = "A"
    /\ IsRankingOf(tableData, StandingsChain)

-----------------------------------------------------------------------------
(* C13 *)

\* C13: a click on the team-name cell of a displayed row that carries a
\* teamUrl posts exactly one TEAM_CLICK message to the parent, with the league
\* active at the click, the team name and the teamUrl of the row; a click on a
\* row without teamUrl posts nothing; a click changes neither the stored
\* standings, nor the active league, nor the displayed rows.
C13_ClickStep ==
    \A i \in 1..Len(tableData) :
        CellClick(i) =>
            LET r == tableData[i]
            IN  /\ IF "teamUrl" \in DOMAIN r
                   THEN last'.posted =
                            << [type |-> "TEAM_CLICK",
                                payload |-> [leagueId |-> activeLeagueId,
                                             equipeName |-> r.equipeName,
                                             url |-> r.teamUrl]] >>
                   ELSE last'.posted = <<>>
                /\ UNCHANGED << standingsByLeague, activeLeagueId, tableData, leagues,
                                selValue, table >>

C13_TeamClick == [][C13_ClickStep]_vars

C13_Witness ==
    /\ last.op = "click"
    /\ Len(last.posted) = 1
    /\ last.posted[1].payload = [leagueId |-> "B", equipeName |-> "W", url |-> "/t1"]
    /\ activeLeagueId = "B"

-----------------------------------------------------------------------------
(* C15 *)

\* the layout mode of a viewport of width w
ModeOf(w) == IF w >= 900 THEN "fitColumns" ELSE "fitData"

\* C15: once the table exists, whenever no debounced resize evaluation is
\* pending, the layout mode of the table is 'fill available width' if the
\* viewport is at least 900 wide and 'natural width' otherwise; an evaluation
\* that finds the mode changed applies the new mode and forces a redraw, one
\* that finds it unchanged applies nothing.
C15_EvaluationStep ==
    onResize =>
        IF ModeOf(viewportWidth) # tableLayout
        THEN /\ last'.setOptions = << ModeOf(viewportWidth) >>
             /\ last'.redraws = 1
             /\ tableLayout' = ModeOf(viewportWidth)
        ELSE /\ last'.setOptions = <<>>
             /\ last'.redraws = 0
             /\ tableLayout' = tableLayout

C15_LayoutSynchronized ==
    /\ []((table /\ resizeTimer = NoTimer) => tableLayout = ModeOf(viewportWidth))
    /\ [][C15_EvaluationStep]_vars

C15_Witness ==
    /\ last.op = "onResize" /\ last.redraws = 1
    /\ table /\ resizeTimer = NoTimer
    /\ viewportWidth < 900 /\ tableLayout = "fitData"

-----------------------------------------------------------------------------
(* C16 *)

\* C16: resize events are debounced with a quiet period of 120ms: every resize
\* event cancels the pending evaluation and restarts the period without
\* evaluating; the layout mode is evaluated only when 120ms have passed since
\* the last resize event; a burst of resize events leaves exactly one
\* evaluation pending, which happens 120ms after the last event of the burst.
C16_EventStep ==
    \A w \in Widths :
        (table /\ Resize(w)) =>
            /\ resizeTimer' = 120
            /\ last'.op # "onResize"
            /\ UNCHANGED << tableLayout, currentLayout >>

C16_EvaluationStep ==
    onResize =>
        /\ quiet >= 120
        /\ burst >= 1
        /\ burst' = 0 /\ resizeTimer' = NoTimer

C16_OnlyEvaluationSwitches ==
    (table /\ tableLayout' # tableLayout) => last'.op = "onResize"

C16_OnePending ==
    /\ (burst > 0) <=> (resizeTimer # NoTimer)
    /\ resizeTimer # NoTimer => quiet + resizeTimer = 120

C16_Debounce ==
    /\ [][C16_EventStep /\ C16_EvaluationStep /\ C16_OnlyEvaluationSwitches]_vars
    /\ []C16_OnePending

C16_Witness ==
    /\ last.op = "onResize" /\ last.events >= 2
    /\ resizeTimer = NoTimer /\ quiet = 120

-----------------------------------------------------------------------------
(* C14 *)

\* the step renders again the league L that the previous handler rendered
Rerenders(L) ==
    /\ last.renders > 0 /\ L = activeLeagueId
    /\ \/ AnimationFrame /\ Head(rafQueue) = L
       \/ Timeout60 /\ Head(timeouts) = L

\* C14: rendering the same league twice in a row with unchanged stored
\* standings is idempotent: the second render pushes the same rows, in the same
\* order and with the same positions, and leaves the active league unchanged.
C14_RerenderStep ==
    /\ \A L \in LeagueIds \cup {SampleLeagueId} :
          Rerenders(L) =>
              /\ last'.renders = 1
              /\ standingsByLeague' = standingsByLeague
              /\ tableData' = tableData
              /\ activeLeagueId' = activeLeagueId
    /\ (/\ last.renders > 0 /\ last'.renders > 0
        /\ activeLeagueId' = activeLeagueId
        /\ standingsByLeague' = standingsByLeague) => tableData' = tableData

C14_IdempotentRerender == [][C14_RerenderStep]_vars

C14_Witness ==
    /\ last.op = "raf" /\ last.renders = 1
    /\ received = 0 /\ sampleInstalls = 1 /\ timeouts # <<>>
    /\ Len(tableData) = 5 /\ IsRankingOf(tableData, SampleRows)

-----------------------------------------------------------------------------
(* C18 *)

\* C18: a render leaves the stored mapping as it is: the same leagues, the
\* same rows in the same order, no position written into a stored row.  A
\* render made by a deferred attempt or by the selector changes nothing of the
\* mapping; one made while a message is handled leaves in the mapping exactly
\* the rows the message carries.
C18_RenderStep ==
    /\ (AnimationFrame \/ Timeout60) => standingsByLeague' = standingsByLeague
    /\ \A v \in LeagueIds \cup {SampleLeagueId} :
          SelectChange(v) => standingsByLeague' = standingsByLeague
    /\ \A p \in UpdatePayloads :
          (WellFormedUpdate(p) /\ UpdateTable(p)) =>
              /\ standingsByLeague'[p.leagueId] = p.standings.items
              /\ \A k \in DOMAIN standingsByLeague \ {p.leagueId} :
                    standingsByLeague'[k] = standingsByLeague[k]
    /\ \A p \in (InitPayloads \ {Undefined}) \cup {SAMPLE_PAYLOAD} :
          Processes(p) => standingsByLeague' = MappingOf(p)

C18_RenderKeepsStore == [][C18_RenderStep]_vars

C18_Witness ==
    /\ last.op = "change" /\ last.renders = 1 /\ activeLeagueId = "B"
    /\ standingsByLeague["B"] = StandingsChain
    /\ tableData[1].equipeName = "W" /\ tableData[1].position = 1
    /\ standingsByLeague["B"][1] = RowX

-----------------------------------------------------------------------------
(* C19 *)

\* C19: in every state in which the table exists, the rows displayed are the
\* ranking of the standings stored for the active league.
C19_DisplayMatchesStore ==
    table => IsRankingOf(tableData, RowsOf(standingsByLeague, activeLeagueId))

-----------------------------------------------------------------------------
(* C20 *)

\* C20: before DOM-ready, whatever messages have arrived, the table has not
\* been created, nothing is displayed, the active league is unset and neither
\* a deferred render nor the bootstrap timer is scheduled; the table is created
\* at most once in a page load.
C20_NoRenderBeforeReady ==
    /\ ~domReady =>
          /\ ~table /\ tableData = <<>> /\ tablesCreated = 0
          /\ activeLeagueId = NoLeague
          /\ rafQueue = <<>> /\ timeouts = <<>> /\ ~bootTimer
    /\ tablesCreated <= 1
    /\ table <=> tablesCreated = 1

C20_Witness ==
    /\ ~domReady /\ received >= 2 /\ initReceived
    /\ DOMAIN standingsByLeague # {}
    /\ pendingPayload \notin {Null, Undefined}

-----------------------------------------------------------------------------
(* C17 *)

\* the index of the > that ends the start tag of the markup m, as a reader of
\* HTML finds it: a > between two " belongs to an attribute value
RECURSIVE TagEnd(_, _, _)
TagEnd(m, i, inValue) ==
    IF i > Len(m) THEN 0
    ELSE IF m[i] = "\"" THEN TagEnd(m, i + 1, ~inValue)
    ELSE IF m[i] = ">" /\ ~inValue THEN i
    ELSE TagEnd(m, i + 1, inValue)

\* the attribute values of the start tag m[1..end]: what stands between the
\* first and the second ", between the third and the fourth, and so on
RECURSIVE AttrValues(_, _, _, _, _)
AttrValues(m, i, end, inValue, cur) ==
    IF i > end THEN <<>>
    ELSE IF m[i] = "\""
         THEN IF inValue
              THEN << cur >> \o AttrValues(m, i + 1, end, FALSE, <<>>)
              ELSE AttrValues(m, i + 1, end, TRUE, <<>>)
    ELSE IF inValue THEN AttrValues(m, i + 1, end, TRUE, Append(cur, m[i]))
    ELSE AttrValues(m, i + 1, end, FALSE, cur)

\* the index of the first < of m at or after i, Len(m) + 1 when there is none
RECURSIVE NextTag(_, _)
NextTag(m, i) ==
    IF i > Len(m) THEN Len(m) + 1
    ELSE IF m[i] = "<" THEN i
    ELSE NextTag(m, i + 1)

EntityNames == { "amp;", "lt;", "gt;", "quot;", "#39;" }

EntityChar(n) ==
    IF n = "amp;" THEN "&"
    ELSE IF n = "lt;" THEN "<"
    ELSE IF n = "gt;" THEN ">"
    ELSE IF n = "quot;" THEN "\""
    ELSE "'"

\* the characters a reader of HTML shows for the text t
RECURSIVE Shown(_, _)
Shown(t, i) ==
    IF i > Len(t) THEN <<>>
    ELSE IF t[i] = "&" /\ i < Len(t) /\ t[i + 1] \in EntityNames
         THEN << EntityChar(t[i + 1]) >> \o Shown(t, i + 2)
    ELSE << t[i] >> \o Shown(t, i + 1)

\* the text t holds none of < > " ' and holds & only at the head of an entity
EscapedText(t) ==
    \A i \in 1..Len(t) :
        /\ t[i] \notin { "<", ">", "\"", "'" }
        /\ t[i] = "&" => (i < Len(t) /\ t[i + 1] \in EntityNames)

\* C17: in the markup of the team-name cell the name and the URL stand in
\* escaped form only: the text of the cell holds none of & < > " ' of the name
\* unescaped and reads as the name; no " of the URL stands unescaped in the
\* data-href attribute, which holds the whole URL; the data closes no attribute
\* and opens no tag: the markup is one span with its class, its data-href if
\* the row has a URL, and its text.
C17_CellEscaped ==
    cellHtml # NoHtml =>
        LET m      == cellHtml
            end    == TagEnd(m, 1, FALSE)
            attrs  == AttrValues(m, 1, end, FALSE, <<>>)
            close  == NextTag(m, end + 1)
            text   == SubSeq(m, end + 1, close - 1)
            name   == IF cellValue = NoValue THEN <<>> ELSE cellValue
            hasUrl == cellUrl \notin { NoValue, <<>> }
        IN  /\ end > 0
            /\ attrs = IF hasUrl
                       THEN << << "team-link" >>, attrs[2] >>
                       ELSE << << "team-text" >> >>
            /\ hasUrl => /\ \A i \in 1..Len(attrs[2]) : attrs[2][i] # "\""
                         /\ Len(attrs[2]) >= Len(cellUrl)
            /\ EscapedText(text)
            /\ Shown(text, 1) = name
            /\ SubSeq(m, close, Len(m)) = << "<", "/span", ">" >>

C17_Witness ==
    /\ cellHtml # NoHtml
    /\ cellValue = << "<", "'" >>
    /\ cellUrl = << "/t", "\"" >>

====
